---- MODULE Spec2Model ----
(***************************************************************************)
(* A model of the two Selik vocabulary tools:                              *)
(*   loutwit.py  the vocabulary analyzer (VocabAnalyzer: parse_line,       *)
(*               load_file, analyze, main)                                 *)
(*   louttit.py  the spelling quiz (module-level memory load, load_vocab,  *)
(*               select_words, quiz_loop, save_memory, main)               *)
(*                                                                         *)
(* Text is a sequence of one-character strings, so that strip, split, join *)
(* and the numbering-prefix substitution are computed, not assumed.  A     *)
(* Python dict is a sequence of <<key, value>> pairs with distinct keys,   *)
(* in insertion order.                                                     *)
(***************************************************************************)
EXTENDS Integers, Sequences, FiniteSets, TLC

VARIABLES
    \* ---- loutwit.py, parse_line alone
    line,               \* the raw line handed to parse_line
    entry,              \* the VocabEntry it returned (NoEntry before the call)
    \* ---- loutwit.py, a VocabAnalyzer and main()
    apc,                \* where main() is: "load", "analyzed", "exit"
    entries,            \* self.entries
    selik_duplicates,   \* self.selik_duplicates
    meaning_duplicates, \* self.meaning_duplicates
    undefined_entries,  \* self.undefined_entries
    total_entries,      \* main()'s total_entries
    reported,           \* number of load faults printed
    lines_read,         \* lines read so far, over all files
    \* ---- louttit.py
    pc,                 \* where the run is: "start", "quiz" (blocked in input()),
                        \* "done", "exit", "crashed"; "select"/"selected" for a
                        \* lone call of select_words
    store,              \* the file MEM_FILE
    memory,             \* the module-level dict memory
    loaded,             \* memory as it was loaded
    words,              \* the list select_words returned
    limit,              \* select_words' limit: <<>> for None, <<L>> for L
    vocab,              \* the dict load_vocab returned
    cur,                \* position in words of the prompt being shown
    out,                \* the right/wrong signals printed so far
    saves,              \* calls of save_memory so far
    exit_path           \* how the quiz session ended

parseVars == <<line, entry>>
anVars    == <<apc, entries, selik_duplicates, meaning_duplicates,
               undefined_entries, total_entries, reported, lines_read>>
quizVars  == <<pc, store, memory, loaded, words, limit, vocab, cur, out, saves,
               exit_path>>
vars      == <<parseVars, anVars, quizVars>>

----------------------------------------------------------------------------
(* Bounds *)

\* longest raw line given to parse_line
MaxLen == 6

----------------------------------------------------------------------------
(* Text *)

\* "C" stands for a code point in U+4E00..U+9FFF, "1" for a decimal digit,
\* " " for whitespace; "v", "V" and "." are themselves.
Chars == {" ", "1", ".", "v", "V", "C"}

Text(n) == UNION {[1..k -> Chars] : k \in 0..n}

isspace(c) == c = " "

isdigit(c) == c = "1"

\* str.lower() on one character
lowerChar(c) ==
    CASE c = "V" -> "v"
      [] c = "Q" -> "q"
      [] c = "A" -> "a"
      [] OTHER -> c

lower(text) == [i \in 1..Len(text) |-> lowerChar(text[i])]

RECURSIVE lstrip(_)
lstrip(s) == IF s # <<>> /\ isspace(Head(s)) THEN lstrip(Tail(s)) ELSE s

RECURSIVE rstrip(_)
rstrip(s) ==
    IF s # <<>> /\ isspace(s[Len(s)]) THEN rstrip(SubSeq(s, 1, Len(s) - 1)) ELSE s

strip(s) == rstrip(lstrip(s))

RECURSIVE skipDigits(_)
skipDigits(s) == IF s # <<>> /\ isdigit(Head(s)) THEN skipDigits(Tail(s)) ELSE s

\* re.sub(r'^\s*\d+\.\s*', '', s): the prefix is removed when s starts with
\* optional whitespace, one or more digits and a dot; s is returned as is
\* otherwise.
stripNumber(s) ==
    LET a == lstrip(s)
        b == skipDigits(a)
    IN  IF a # <<>> /\ isdigit(Head(a)) /\ b # <<>> /\ Head(b) = "."
        THEN lstrip(Tail(b))
        ELSE s

RECURSIVE takeWord(_)
takeWord(s) ==
    IF s = <<>> \/ isspace(Head(s)) THEN <<>> ELSE <<Head(s)>> \o takeWord(Tail(s))

\* str.split(): the maximal runs of non-whitespace, in order
RECURSIVE split(_)
split(s) ==
    LET a == lstrip(s)
        w == takeWord(a)
    IN  IF a = <<>> THEN <<>>
        ELSE <<w>> \o split(SubSeq(a, Len(w) + 1, Len(a)))

\* ' '.join(parts)
RECURSIVE join(_)
join(parts) ==
    IF parts = <<>> THEN <<>>
    ELSE IF Len(parts) = 1 THEN parts[1]
    ELSE parts[1] \o <<" ">> \o join(Tail(parts))

----------------------------------------------------------------------------
(* loutwit.py: VocabAnalyzer.parse_line *)

CJK == {"C"}

_contains_chinese(text) == \E i \in 1..Len(text) : text[i] \in CJK

pos_markers ==
    { <<"v", ".">>, <<"n", ".">>, <<"a", "d", "j", ".">>, <<"a", "d", "v", ".">>,
      <<"p", "r", "e", "p", ".">>, <<"c", "o", "n", "j", ".">>,
      <<"i", "n", "t", "e", "r", "j", ".">>, <<"p", "r", "o", "n", ".">> }

_is_pos_marker(text) == lower(text) \in pos_markers \/ text \in pos_markers

VocabEntry(line_number, original_line, word, meaning, pos, is_defined, file_path) ==
    [ line_number |-> line_number, original_line |-> original_line,
      selik_word |-> word, chinese_meaning |-> meaning, part_of_speech |-> pos,
      is_defined |-> is_defined, file_path |-> file_path ]

\* the index of the first part containing a CJK character, 0 for None
\* (Python's index i is i + 1 here)
chinese_start(parts) ==
    IF \E i \in 1..Len(parts) : _contains_chinese(parts[i])
    THEN CHOOSE i \in 1..Len(parts) :
            /\ _contains_chinese(parts[i])
            /\ \A j \in 1..(i - 1) : ~_contains_chinese(parts[j])
    ELSE 0

no_chinese_entry_pos_first(ln, clean_line, line_number, file_path) ==
    IF _is_pos_marker(clean_line)
    THEN VocabEntry(line_number, ln, <<>>, <<>>, clean_line, FALSE, file_path)
    ELSE VocabEntry(line_number, ln, <<>>, clean_line, <<>>, FALSE, file_path)

\* lines 70-72: no part contains a CJK character
no_chinese_entry(ln, clean_line, line_number, file_path) ==
    VocabEntry(line_number, ln, <<>>, clean_line, <<>>, FALSE, file_path)

\* lines 75-85: the first part already contains a CJK character
undefined_entry(ln, clean_line, parts, line_number, file_path) ==
    LET last_part == parts[Len(parts)]
    IN  IF _is_pos_marker(last_part)
        THEN VocabEntry(line_number, ln, <<>>,
                        join(SubSeq(parts, 1, Len(parts) - 1)), last_part,
                        FALSE, file_path)
        ELSE VocabEntry(line_number, ln, <<>>, clean_line, <<>>, FALSE,
                        file_path)

defined_entry_first_part(ln, parts, idx, line_number, file_path) ==
    LET meaning_parts == SubSeq(parts, idx, Len(parts))
    IN  VocabEntry(line_number, ln, parts[1], join(meaning_parts), <<>>, TRUE,
                   file_path)

\* lines 87-101: the parts before the first CJK part are the Selik word
defined_entry(ln, parts, idx, line_number, file_path) ==
    LET selik_parts == SubSeq(parts, 1, idx - 1)
        meaning_parts == SubSeq(parts, idx, Len(parts))
        n == Len(meaning_parts)
    IN  IF n > 1 /\ _is_pos_marker(meaning_parts[n])
        THEN VocabEntry(line_number, ln, join(selik_parts),
                        join(SubSeq(meaning_parts, 1, n - 1)),
                        meaning_parts[n], TRUE, file_path)
        ELSE VocabEntry(line_number, ln, join(selik_parts), join(meaning_parts),
                        <<>>, TRUE, file_path)

parse_line(ln, line_number, file_path) ==
    LET clean_line == stripNumber(strip(ln))
        parts == split(clean_line)
        idx == chinese_start(parts)
    IN  IF clean_line = <<>>
        THEN VocabEntry(line_number, ln, <<>>, <<>>, <<>>, FALSE, file_path)
        ELSE IF Len(parts) = 0
        THEN VocabEntry(line_number, ln, <<>>, <<>>, <<>>, FALSE, file_path)
        ELSE IF idx = 0
        THEN no_chinese_entry(ln, clean_line, line_number, file_path)
        ELSE IF idx = 1
        THEN undefined_entry(ln, clean_line, parts, line_number, file_path)
        ELSE defined_entry(ln, parts, idx, line_number, file_path)

NoEntry == [ is_defined |-> FALSE, none |-> TRUE ]

AnIdle ==
    /\ apc = "idle"
    /\ entries = <<>>
    /\ selik_duplicates = <<>>
    /\ meaning_duplicates = <<>>
    /\ undefined_entries = <<>>
    /\ total_entries = 0
    /\ reported = 0
    /\ lines_read = 0

QuizIdle ==
    /\ pc = "idle"
    /\ store = [kind |-> "absent"]
    /\ memory = <<>>
    /\ loaded = <<>>
    /\ words = <<>>
    /\ limit = <<>>
    /\ vocab = <<>>
    /\ cur = 0
    /\ out = <<>>
    /\ saves = 0
    /\ exit_path = ""

InitParse ==
    /\ line \in Text(MaxLen)
    /\ entry = NoEntry
    /\ AnIdle
    /\ QuizIdle

\* one call parse_line(line, 1, "f1")
ParseLine ==
    /\ entry = NoEntry
    /\ entry' = parse_line(line, 1, "f1")
    /\ UNCHANGED <<line, anVars, quizVars>>

NextParse == ParseLine

SpecParse == InitParse /\ [][NextParse]_vars

----------------------------------------------------------------------------
(* Python dicts: a sequence of <<key, value>> pairs, insertion-ordered *)

keys(d) == { d[i][1] : i \in 1..Len(d) }

has(d, k) == k \in keys(d)

get(d, k, default) ==
    IF has(d, k) THEN d[CHOOSE i \in 1..Len(d) : d[i][1] = k][2] ELSE default

\* d[k] = v: an existing key keeps its place, a new key goes last
put(d, k, v) ==
    IF has(d, k)
    THEN [i \in 1..Len(d) |-> IF d[i][1] = k THEN <<k, v>> ELSE d[i]]
    ELSE Append(d, <<k, v>>)

----------------------------------------------------------------------------
(* loutwit.py: VocabAnalyzer.load_file, analyze, main *)

\* bounds of the analyzer runs: lines read over all files, and faulty files
MaxLines == 3
MaxFaults == 1

Paths == {"f1"}

\* the lines the input files are made of
AnLines ==
    { <<>>,                                   \* a blank line
      <<"v", " ", "C">>,                      \* v / C
      <<"v", " ", "C", "C">>,                 \* v / CC
      <<"V", " ", "C", " ", "v", ".">>,       \* V / C / v.
      <<"V", " ", "C">>,                      \* V / C
      <<"C", " ", "v", ".">> }                \* undefined: C / v.

FileContents(n) == UNION {[1..k -> AnLines] : k \in 1..n}

\* lines 122-126: the entries of the non-blank lines, numbered from 1
RECURSIVE file_entries(_, _, _)
file_entries(lines, line_num, file_path) ==
    IF line_num > Len(lines) THEN <<>>
    ELSE (IF strip(lines[line_num]) # <<>>
          THEN <<parse_line(lines[line_num], line_num, file_path)>>
          ELSE <<>>)
         \o file_entries(lines, line_num + 1, file_path)

\* lines 152-154: self.selik_duplicates[entry.selik_word].append(entry)
RECURSIVE group_by_word(_, _)
group_by_word(es, d) ==
    IF es = <<>> THEN d
    ELSE LET e == Head(es)
         IN  group_by_word(Tail(es),
                 IF e.selik_word # <<>>
                 THEN put(d, e.selik_word, Append(get(d, e.selik_word, <<>>), e))
                 ELSE d)

meaning_key_no_pos(e) == <<e.chinese_meaning, <<>>>>

\* line 159
meaning_key(e) == <<e.chinese_meaning, e.part_of_speech>>

\* lines 157-160: self.meaning_duplicates[meaning_key].append(entry)
RECURSIVE group_by_meaning(_, _)
group_by_meaning(es, d) ==
    IF es = <<>> THEN d
    ELSE LET e == Head(es)
             k == meaning_key(e)
         IN  group_by_meaning(Tail(es), put(d, k, Append(get(d, k, <<>>), e)))

\* lines 163-164: {k: v for k, v in d.items() if len(v) > 1}
only_duplicates(d) == SelectSeq(d, LAMBDA kv : Len(kv[2]) > 1)

\* line 146
defined_of(es) == SelectSeq(es, LAMBDA e : e.is_defined)

\* main(), one turn of the loop over sys.argv[1:] on an existing file:
\* load_file reads every line, parses the non-blank ones and appends them
LoadFile(path, lines) ==
    /\ apc = "load"
    /\ lines_read + Len(lines) <= MaxLines
    /\ lines_read' = lines_read + Len(lines)
    /\ LET new == file_entries(lines, 1, path)
       IN  /\ entries' = entries \o new
           /\ total_entries' = total_entries + Len(new)
    /\ UNCHANGED <<apc, selik_duplicates, meaning_duplicates, undefined_entries,
                   reported, parseVars, quizVars>>

\* main() on a path that does not exist (line 242), or load_file on a file
\* that is not UTF-8: readlines() raises before any entry is appended, the
\* except clause prints the error and returns 0 (lines 134-136)
LoadFault ==
    /\ apc = "load"
    /\ reported < MaxFaults
    /\ reported' = reported + 1
    /\ UNCHANGED <<lines_read, apc, entries, selik_duplicates, meaning_duplicates,
                   undefined_entries, total_entries, parseVars, quizVars>>

\* main() lines 244-246: nothing was loaded
ExitEmpty ==
    /\ apc = "load"
    /\ total_entries = 0
    /\ apc' = "exit"
    /\ UNCHANGED <<entries, selik_duplicates, meaning_duplicates,
                   undefined_entries, total_entries, reported, lines_read,
                   parseVars, quizVars>>

\* main() line 249: analyzer.analyze()
Analyze ==
    /\ apc = "load"
    /\ total_entries # 0
    /\ LET defined_entries == defined_of(entries)
       IN  /\ undefined_entries' = SelectSeq(entries, LAMBDA e : ~e.is_defined)
           /\ selik_duplicates' =
                 only_duplicates(group_by_word(defined_entries, selik_duplicates))
           /\ meaning_duplicates' =
                 only_duplicates(group_by_meaning(defined_entries,
                                                  meaning_duplicates))
    /\ apc' = "analyzed"
    /\ UNCHANGED <<entries, total_entries, reported, lines_read, parseVars,
                   quizVars>>

ParseIdle == line = <<>> /\ entry = NoEntry

InitAnalyzer ==
    /\ apc = "load"
    /\ entries = <<>>
    /\ selik_duplicates = <<>>
    /\ meaning_duplicates = <<>>
    /\ undefined_entries = <<>>
    /\ total_entries = 0
    /\ reported = 0
    /\ lines_read = 0
    /\ ParseIdle
    /\ QuizIdle

NextAnalyzer ==
    \/ \E path \in Paths, lines \in FileContents(MaxLines) : LoadFile(path, lines)
    \/ LoadFault
    \/ ExitEmpty
    \/ Analyze

SpecAnalyzer == InitAnalyzer /\ [][NextAnalyzer]_vars

----------------------------------------------------------------------------
(* Claims about parse_line, checked under SpecParse *)

\* numbering prefixes "<integer>." with the whitespace around them
NumberPrefixes ==
    { <<>>, <<"1", ".">>, <<"1", ".", " ">>, <<" ", "1", ".">>, <<"1", "1", ".">>,
      <<"1", "1", ".", " ">>, <<"1", ".", " ", " ">> }

\* the part-of-speech markers that Chars can spell
LoneMarkers == { <<"v", ".">>, <<"V", ".">> }

\* the line is a numbering prefix followed by a lone marker and nothing else
LoneMarkerLine ==
    \E p \in NumberPrefixes, m \in LoneMarkers : line = p \o m

TheLoneMarker == CHOOSE m \in LoneMarkers : \E p \in NumberPrefixes : line = p \o m

parsed == entry # NoEntry

\* C8 as claimed: parse_line on a line that is a numbering prefix and a lone
\* part-of-speech marker returns an undefined entry with empty word, empty
\* meaning and partOfSpeech equal to the marker.
C8_LoneMarkerEmptyMeaning ==
    (parsed /\ LoneMarkerLine) =>
        /\ ~entry.is_defined
        /\ entry.selik_word = <<>>
        /\ entry.chinese_meaning = <<>>
        /\ entry.part_of_speech = TheLoneMarker

\* C8 amended: on such a line parse_line returns an undefined entry with empty
\* word, meaning equal to the marker and empty partOfSpeech (the line has no
\* CJK part, so the whole remainder is the meaning).
C8_LoneMarkerIsMeaning ==
    (parsed /\ LoneMarkerLine) =>
        /\ ~entry.is_defined
        /\ entry.selik_word = <<>>
        /\ entry.chinese_meaning = TheLoneMarker
        /\ entry.part_of_speech = <<>>

\* the line "1. v." has been parsed
C8_Witness == parsed /\ line = <<"1", ".", " ", "v", ".">>

\* the tokens of the line once its numbering prefix is gone
Tokens == split(stripNumber(strip(line)))

HasCJK(tok) == \E i \in 1..Len(tok) : tok[i] = "C"

\* the number of tokens before the first token with a CJK character; -1 when
\* no token has one
TokensBeforeCJK ==
    IF \E i \in 1..Len(Tokens) : HasCJK(Tokens[i])
    THEN Cardinality({ i \in 1..Len(Tokens) :
                        \A j \in 1..i : ~HasCJK(Tokens[j]) })
    ELSE -1

\* C9: for every line the entry parse_line returns has isDefined equal to
\* (word # ""); it is defined exactly when at least one token precedes the
\* first token with a CJK character, and then word is the space-join of the
\* tokens before it.
C9_DefinedIffWord ==
    parsed =>
        /\ entry.is_defined = (entry.selik_word # <<>>)
        /\ entry.is_defined = (TokensBeforeCJK >= 1)
        /\ entry.is_defined =>
              entry.selik_word = join(SubSeq(Tokens, 1, TokensBeforeCJK))

\* a defined entry whose word has two tokens
C9_Witness ==
    /\ parsed
    /\ entry.is_defined
    /\ Len(split(entry.selik_word)) >= 2

----------------------------------------------------------------------------
(* Claims about analyze(), checked under SpecAnalyzer *)

analyzed == apc = "analyzed"

\* the defined entries with word w, in load order
WordGroup(w) == SelectSeq(entries, LAMBDA e : e.is_defined /\ e.selik_word = w)

\* the defined entries with meaning m and part of speech p, in load order
MeaningGroup(m, p) ==
    SelectSeq(entries, LAMBDA e : /\ e.is_defined
                                  /\ e.chinese_meaning = m
                                  /\ e.part_of_speech = p)

EntryWords == { entries[i].selik_word : i \in 1..Len(entries) }

EntryMeanings ==
    { <<entries[i].chinese_meaning, entries[j].part_of_speech>> :
        i \in 1..Len(entries), j \in 1..Len(entries) }

\* C10: after analyze() the word-duplicate clusters are exactly the groups of
\* defined entries sharing a word that have more than one member, and the
\* meaning-duplicate clusters exactly the groups of defined entries sharing a
\* (meaning, partOfSpeech) pair that have more than one member; undefined
\* entries are in no cluster.
C10_ClustersAreGroups ==
    analyzed =>
        /\ \A w \in EntryWords \cup keys(selik_duplicates) :
              IF Len(WordGroup(w)) > 1
              THEN get(selik_duplicates, w, <<>>) = WordGroup(w)
              ELSE ~has(selik_duplicates, w)
        /\ \A k \in EntryMeanings \cup keys(meaning_duplicates) :
              IF Len(MeaningGroup(k[1], k[2])) > 1
              THEN get(meaning_duplicates, k, <<>>) = MeaningGroup(k[1], k[2])
              ELSE ~has(meaning_duplicates, k)
        /\ Cardinality(keys(selik_duplicates)) = Len(selik_duplicates)
        /\ Cardinality(keys(meaning_duplicates)) = Len(meaning_duplicates)
        /\ \A i \in 1..Len(selik_duplicates) :
              \A j \in 1..Len(selik_duplicates[i][2]) :
                 selik_duplicates[i][2][j].is_defined
        /\ \A i \in 1..Len(meaning_duplicates) :
              \A j \in 1..Len(meaning_duplicates[i][2]) :
                 meaning_duplicates[i][2][j].is_defined

\* analyze() has run on two defined entries with one word and two meanings
\* and a defined entry with the meaning of one of them and another part of
\* speech; there is one word cluster, of size 2, and no meaning cluster
C10_Witness ==
    /\ analyzed
    /\ Len(selik_duplicates) = 1
    /\ Len(selik_duplicates[1][2]) = 2
    /\ selik_duplicates[1][2][1].chinese_meaning
          # selik_duplicates[1][2][2].chinese_meaning
    /\ \E i, j \in 1..Len(entries) :
          /\ entries[i].is_defined /\ entries[j].is_defined
          /\ entries[i].chinese_meaning = entries[j].chinese_meaning
          /\ entries[i].part_of_speech # entries[j].part_of_speech
    /\ meaning_duplicates = <<>>

----------------------------------------------------------------------------
(* louttit.py: select_words *)

\* bounds of the lone calls of select_words
SelMaxAsked == 2
MaxLimit == 3

\* an error rate is a fraction <<numerator, denominator>>, denominator > 0
\* (the code computes it in floating point; the counts here are small enough
\* for distinct fractions to be distinct floats)
rate_gt(e1, e2) == e1[1] * e2[2] > e2[1] * e1[2]

\* line 51: 1.0 - (correct/asked if asked>0 else 0)
err(asked, correct) ==
    IF asked > 0 THEN <<asked - correct, asked>> ELSE <<1, 1>>

\* stats.get('meaning', '')
meaning_of(stats) == IF "meaning" \in DOMAIN stats THEN stats.meaning ELSE <<>>

\* lines 48-52: one item <<err, w, meaning>> per word of vocab
file_items(vocabulary, mem) ==
    [ n \in 1..Len(vocabulary) |->
        LET w == vocabulary[n][1]
            stats == get(mem, w, [asked |-> 0, correct |-> 0])
        IN  <<err(stats.asked, stats.correct), w, vocabulary[n][2]>> ]

\* lines 54-58: one item per record with a miss outstanding
memory_items(mem) ==
    LET missed == SelectSeq(mem, LAMBDA kv : /\ kv[2].asked > 0
                                             /\ kv[2].correct < kv[2].asked)
    IN  [ n \in 1..Len(missed) |->
            <<err(missed[n][2].asked, missed[n][2].correct), missed[n][1],
              meaning_of(missed[n][2])>> ]

insert_ascending(sorted, x) ==
    LET k == Cardinality({ n \in 1..Len(sorted) : ~rate_gt(sorted[n][1], x[1]) })
    IN  SubSeq(sorted, 1, k) \o <<x>> \o SubSeq(sorted, k + 1, Len(sorted))

\* x goes after the items of sorted whose rate is at least its own
insert_descending(sorted, x) ==
    LET k == Cardinality({ n \in 1..Len(sorted) : ~rate_gt(x[1], sorted[n][1]) })
    IN  SubSeq(sorted, 1, k) \o <<x>> \o SubSeq(sorted, k + 1, Len(sorted))

\* line 59: items.sort(reverse=True, key=lambda x: x[0]), a stable sort
RECURSIVE sort_reverse(_)
sort_reverse(items) ==
    IF items = <<>> THEN <<>>
    ELSE insert_descending(sort_reverse(SubSeq(items, 1, Len(items) - 1)),
                           items[Len(items)])

\* items[:n]
slice_to(items, n) ==
    IF n >= 0 THEN SubSeq(items, 1, IF n < Len(items) THEN n ELSE Len(items))
    ELSE SubSeq(items, 1, Len(items) + n)

\* lines 60-61: "if limit:" is false for None and for 0
truncate(items, lim) ==
    IF lim # <<>> /\ lim[1] # 0 THEN slice_to(items, lim[1]) ELSE items

select_words(vocabulary, mem, lim) ==
    LET items == IF vocabulary # <<>> THEN file_items(vocabulary, mem)
                 ELSE memory_items(mem)
        kept == truncate(sort_reverse(items), lim)
    IN  [ n \in 1..Len(kept) |-> <<kept[n][2], kept[n][3]>> ]

SelWords == { <<"a">>, <<"b">>, <<"c">> }

Gloss == <<"C">>

\* the sequences of distinct members of S
Orderings(S) ==
    { q \in UNION {[1..k -> S] : k \in 0..Cardinality(S)} :
        \A m, n \in 1..Len(q) : m # n => q[m] # q[n] }

Stats(maxAsked) ==
    { [asked |-> a, correct |-> c, meaning |-> Gloss] :
        a \in 0..maxAsked, c \in 0..maxAsked } 

ValidStats(maxAsked) == { st \in Stats(maxAsked) : st.correct <= st.asked }

\* the dicts with the keys of ks, in that order
DictsOver(ks, Values) ==
    { [ n \in 1..Len(ks) |-> <<ks[n], f[n]>> ] : f \in [1..Len(ks) -> Values] }

SelVocabs == { [ n \in 1..Len(ks) |-> <<ks[n], Gloss>> ] : ks \in Orderings(SelWords) }

SelMemories == UNION { DictsOver(ks, ValidStats(SelMaxAsked)) : ks \in Orderings(SelWords) }

\* whether the keys of d are in the order a < b < c
Canonical(d) == \A m, n \in 1..Len(d) : m < n => d[m][1][1] # "c" /\ d[n][1][1] # "a"

\* In file mode select_words reads memory through memory.get alone, so one
\* key order per memory is enough there.
InitSelect ==
    /\ pc = "select"
    /\ vocab \in SelVocabs
    /\ memory \in SelMemories
    /\ vocab # <<>> => Canonical(memory)
    /\ store = [kind |-> "absent"]
    /\ loaded = memory
    /\ words = <<>>
    /\ limit = <<>>
    /\ cur = 0
    /\ out = <<>>
    /\ saves = 0
    /\ exit_path = ""
    /\ ParseIdle
    /\ AnIdle

\* one call select_words(vocab, memory, lim)
Select(lim) ==
    /\ pc = "select"
    /\ pc' = "selected"
    /\ limit' = lim
    /\ words' = select_words(vocab, memory, lim)
    /\ UNCHANGED <<store, memory, loaded, vocab, cur, out, saves, exit_path,
                   parseVars, anVars>>

Limits == {<<>>} \cup { <<L>> : L \in 0..MaxLimit }

NextSelect == \E lim \in Limits : Select(lim)

SpecSelect == InitSelect /\ [][NextSelect]_vars

----------------------------------------------------------------------------
(* louttit.py: the module-level load, load_vocab, quiz_loop, save_memory, *)
(* main and the __main__ block                                            *)

\* bounds of the quiz runs: the counts in the stored memory, the file arguments
QuizMaxAsked == 1
MaxArgs == 2

wa == <<"a">>
wb == <<"b">>
m1 == <<"C">>
m2 == <<"D">>

\* a stored record may lack the key "meaning" (select_words reads it with
\* stats.get('meaning', ''))
QuizStats ==
    { [asked |-> a, correct |-> c, meaning |-> m1] :
        a \in 0..QuizMaxAsked, c \in 0..QuizMaxAsked }
    \cup { [asked |-> a, correct |-> c] :
        a \in 0..QuizMaxAsked, c \in 0..QuizMaxAsked }

QuizMemories ==
    UNION { DictsOver(ks, { st \in QuizStats : st.correct <= st.asked }) :
              ks \in Orderings({wa, wb}) }

\* MEM_FILE: absent, not JSON, or the JSON of a dict
Stores ==
    { [kind |-> "absent"], [kind |-> "corrupt"] }
    \cup { [kind |-> "json", data |-> d] : d \in QuizMemories }

\* a line of a vocabulary file, as load_vocab's pattern sees it
Matched(w, m) == [matched |-> TRUE, word |-> w, meaning |-> m]
Unmatched == [matched |-> FALSE]

\* a vocabulary file: missing, readable, or with bytes that are not UTF-8
\* after the lines given
QuizFiles ==
    { [kind |-> "missing", lines |-> <<>>],
      [kind |-> "undecodable", lines |-> <<Matched(wb, m2)>>],
      [kind |-> "ok", lines |-> <<Matched(wa, m2), Unmatched, Matched(wb, m1)>>],
      [kind |-> "ok", lines |-> <<Matched(wa, m1)>>],
      [kind |-> "ok", lines |-> <<Unmatched>>] }

FileLists == UNION {[1..k -> QuizFiles] : k \in 0..MaxArgs}

\* lines 33-39: vocab[word] = meaning for each matching line
RECURSIVE add_lines(_, _)
add_lines(lines, v) ==
    IF lines = <<>> THEN v
    ELSE add_lines(Tail(lines),
                   IF Head(lines).matched
                   THEN put(v, Head(lines).word, Head(lines).meaning)
                   ELSE v)

\* lines 30-42: FileNotFoundError is caught and the file skipped; a
\* UnicodeDecodeError is not caught and leaves load_vocab
RECURSIVE load_vocab_from(_, _)
load_vocab_from(files, v) ==
    IF files = <<>> THEN [raised |-> FALSE, vocab |-> v]
    ELSE LET f == Head(files)
         IN  CASE f.kind = "missing" -> load_vocab_from(Tail(files), v)
               [] f.kind = "undecodable" ->
                    [raised |-> TRUE, vocab |-> add_lines(f.lines, v)]
               [] OTHER -> load_vocab_from(Tail(files), add_lines(f.lines, v))

load_vocab(files) == load_vocab_from(files, <<>>)

\* lines 13-17: the memory the module-level code builds from MEM_FILE
load_memory == IF store.kind = "json" THEN store.data ELSE <<>>

\* lines 83-84: what save_memory writes to MEM_FILE
save_memory(mem) == [kind |-> "json", data |-> mem]

record_answer_correct_only(mem, w, m, ans) ==
    LET stats == get(mem, w, [asked |-> 0, correct |-> 0, meaning |-> m])
    IN  put(mem, w, IF ans = w THEN [stats EXCEPT !.correct = @ + 1]
                    ELSE [stats EXCEPT !.asked = @ + 1])

\* lines 72-75: setdefault, asked += 1, and correct += 1 on an exact match
record_answer(mem, w, m, ans) ==
    LET stats == get(mem, w, [asked |-> 0, correct |-> 0, meaning |-> m])
        asked1 == [stats EXCEPT !.asked = @ + 1]
    IN  put(mem, w, IF ans = w THEN [asked1 EXCEPT !.correct = @ + 1]
                    ELSE asked1)

is_quit(ans) == lower(ans) = <<"q">>

\* what the user may type at a prompt
RawAnswers ==
    { <<"a">>, <<"b">>, <<" ", "a">>, <<"A">>, <<>>,
      <<"q">>, <<"Q">>, <<"q", " ">> }

Init ==
    /\ pc = "start"
    /\ store \in Stores
    /\ memory = <<>>
    /\ loaded = <<>>
    /\ words = <<>>
    /\ limit = <<>>
    /\ vocab = <<>>
    /\ cur = 0
    /\ out = <<>>
    /\ saves = 0
    /\ exit_path = ""
    /\ ParseIdle
    /\ AnIdle

\* line 15: json.load raises on a MEM_FILE that is not JSON; the module-level
\* code has no handler
CrashOnMemory ==
    /\ pc = "start"
    /\ store.kind = "corrupt"
    /\ pc' = "crashed"
    /\ UNCHANGED <<store, memory, loaded, words, limit, vocab, cur, out, saves,
                   exit_path, parseVars, anVars>>

\* line 91: load_vocab raises UnicodeDecodeError; the __main__ block catches
\* KeyboardInterrupt alone
CrashOnVocab(files) ==
    /\ pc = "start"
    /\ store.kind # "corrupt"
    /\ files # <<>>
    /\ load_vocab(files).raised
    /\ memory' = load_memory
    /\ loaded' = load_memory
    /\ pc' = "crashed"
    /\ UNCHANGED <<store, words, limit, vocab, cur, out, saves, exit_path,
                   parseVars, anVars>>

\* lines 92-94 and 98-100: nothing to quiz, main returns without saving
ExitNothingToQuiz(files) ==
    /\ pc = "start"
    /\ store.kind # "corrupt"
    /\ files # <<>> => ~load_vocab(files).raised
    /\ LET v == IF files # <<>> THEN load_vocab(files).vocab ELSE <<>>
       IN  /\ IF files # <<>> THEN v = <<>>
              ELSE select_words(<<>>, load_memory, <<>>) = <<>>
           /\ vocab' = v
    /\ memory' = load_memory
    /\ loaded' = load_memory
    /\ pc' = "exit"
    /\ UNCHANGED <<store, words, limit, cur, out, saves, exit_path,
                   parseVars, anVars>>

\* lines 89-101 and 66-69: main selects the words and quiz_loop blocks in
\* input() on the first of them
StartQuiz(files) ==
    /\ pc = "start"
    /\ store.kind # "corrupt"
    /\ files # <<>> => ~load_vocab(files).raised
    /\ LET v == IF files # <<>> THEN load_vocab(files).vocab ELSE <<>>
           ws == select_words(v, load_memory, <<>>)
       IN  /\ files # <<>> => v # <<>>
           /\ ws # <<>>
           /\ vocab' = v
           /\ words' = ws
    /\ memory' = load_memory
    /\ loaded' = load_memory
    /\ cur' = 1
    /\ pc' = "quiz"
    /\ UNCHANGED <<store, limit, out, saves, exit_path, parseVars, anVars>>

AnswerQuitCounted(raw) ==
    /\ pc = "quiz"
    /\ is_quit(strip(raw))
    /\ memory' = record_answer(memory, words[cur][1], words[cur][2], strip(raw))
    /\ store' = save_memory(memory')
    /\ saves' = saves + 1
    /\ exit_path' = "q"
    /\ pc' = "done"
    /\ UNCHANGED <<loaded, words, limit, vocab, cur, out, parseVars, anVars>>

\* lines 69-71 and 102: "q" breaks out of the loop; main saves
AnswerQuit(raw) ==
    /\ pc = "quiz"
    /\ is_quit(strip(raw))
    /\ store' = save_memory(memory)
    /\ saves' = saves + 1
    /\ exit_path' = "q"
    /\ pc' = "done"
    /\ UNCHANGED <<memory, loaded, words, limit, vocab, cur, out, parseVars,
                   anVars>>

\* lines 69-78: any other answer is recorded and its signal printed; after
\* the last word the loop ends and main saves (line 102), otherwise
\* quiz_loop blocks in input() on the next word
AnswerRecord(raw) ==
    LET ans == strip(raw)
        w == words[cur][1]
        m == words[cur][2]
    IN  /\ pc = "quiz"
        /\ ~is_quit(ans)
        /\ memory' = record_answer(memory, w, m, ans)
        /\ out' = Append(out, IF ans = w THEN "right" ELSE "wrong")
        /\ IF cur = Len(words)
           THEN /\ store' = save_memory(memory')
                /\ saves' = saves + 1
                /\ exit_path' = "exhausted"
                /\ pc' = "done"
                /\ cur' = cur
           ELSE /\ cur' = cur + 1
                /\ UNCHANGED <<store, saves, exit_path, pc>>
        /\ UNCHANGED <<loaded, words, limit, vocab, parseVars, anVars>>

InterruptNoSave ==
    /\ pc = "quiz"
    /\ exit_path' = "interrupt"
    /\ pc' = "done"
    /\ UNCHANGED <<store, saves, memory, loaded, words, limit, vocab, cur, out,
                   parseVars, anVars>>

\* lines 107-110: KeyboardInterrupt raised in input() reaches the __main__
\* block, which saves and exits
Interrupt ==
    /\ pc = "quiz"
    /\ store' = save_memory(memory)
    /\ saves' = saves + 1
    /\ exit_path' = "interrupt"
    /\ pc' = "done"
    /\ UNCHANGED <<memory, loaded, words, limit, vocab, cur, out, parseVars,
                   anVars>>

\* line 69: input() raises EOFError at the end of standard input; nothing
\* catches it
EndOfInput ==
    /\ pc = "quiz"
    /\ exit_path' = "eof"
    /\ pc' = "crashed"
    /\ UNCHANGED <<store, saves, memory, loaded, words, limit, vocab, cur, out,
                   parseVars, anVars>>

Next ==
    \/ CrashOnMemory
    \/ \E files \in FileLists : CrashOnVocab(files)
    \/ \E files \in FileLists : ExitNothingToQuiz(files)
    \/ \E files \in FileLists : StartQuiz(files)
    \/ \E raw \in RawAnswers : AnswerQuit(raw)
    \/ \E raw \in RawAnswers : AnswerRecord(raw)
    \/ Interrupt
    \/ EndOfInput

Spec == Init /\ [][Next]_vars

----------------------------------------------------------------------------
(* Claims about select_words, checked under SpecSelect *)

selected == pc = "selected"

StatsOf(w) == get(memory, w, [asked |-> 0, correct |-> 0])

\* the error rate of w, 1 - correct/asked or 1 when asked = 0, as a fraction
RateNum(w) ==
    IF StatsOf(w).asked = 0 THEN 1 ELSE StatsOf(w).asked - StatsOf(w).correct

RateDen(w) == IF StatsOf(w).asked = 0 THEN 1 ELSE StatsOf(w).asked

RateAtLeast(w1, w2) == RateNum(w1) * RateDen(w2) >= RateNum(w2) * RateDen(w1)

\* file mode: every key of vocab; memory-only mode: the records with a miss
Eligible ==
    IF vocab # <<>> THEN keys(vocab)
    ELSE { w \in keys(memory) :
             StatsOf(w).asked > 0 /\ StatsOf(w).correct < StatsOf(w).asked }

\* C4: without a limit select_words returns exactly the eligible words, each
\* once, in non-increasing order of error rate.
C4_EligibleByErrorRate ==
    (selected /\ limit = <<>>) =>
        /\ { words[n][1] : n \in 1..Len(words) } = Eligible
        /\ Len(words) = Cardinality(Eligible)
        /\ \A m, n \in 1..Len(words) :
              m < n => RateAtLeast(words[m][1], words[n][1])

\* file mode, no limit: vocab lists a word with correct = asked > 0 before a
\* never-asked word, and the result has the never-asked word first
C4_Witness ==
    /\ selected
    /\ limit = <<>>
    /\ Len(vocab) = 3
    /\ Len(words) = 3
    /\ StatsOf(vocab[1][1]).asked > 0
    /\ StatsOf(vocab[1][1]).correct = StatsOf(vocab[1][1]).asked
    /\ StatsOf(vocab[3][1]).asked = 0
    /\ words[1][1] = vocab[3][1]
    /\ words[3][1] = vocab[1][1]

Min(a, b) == IF a < b THEN a ELSE b

\* C5: with a limit L >= 0 provided and n eligible words the result has
\* exactly min(L, n) items, the first min(L, n) of the untruncated ordering.
C5_TruncatedToLimit ==
    (selected /\ limit # <<>>) =>
        LET k == Min(limit[1], Cardinality(Eligible))
        IN  /\ Len(words) = k
            /\ words = SubSeq(select_words(vocab, memory, <<>>), 1, k)

----------------------------------------------------------------------------
(* Claims about the quiz tool, checked under Spec *)

RECURSIVE TotalAsked(_)
TotalAsked(d) == IF d = <<>> THEN 0 ELSE d[1][2].asked + TotalAsked(Tail(d))

SessionExits == {"exhausted", "q", "interrupt"}

\* C1: a run that entered the quiz session and left it because the list was
\* exhausted, "q" was typed or the input read was interrupted has called save
\* exactly once, after the last record update: MEM_FILE holds memory, with
\* every update of the session in it; no save happens before the exit.
C1_SaveOnceOnEveryExit ==
    /\ saves <= 1
    /\ pc = "quiz" => saves = 0
    /\ exit_path \in SessionExits =>
          /\ pc = "done"
          /\ saves = 1
          /\ store = [kind |-> "json", data |-> memory]
          /\ TotalAsked(store.data) = TotalAsked(loaded) + Len(out)

\* the session ended by an interrupt after one recorded answer, and saved
C1_Witness ==
    /\ exit_path = "interrupt"
    /\ Len(out) = 1
    /\ saves = 1

NoRecord == [asked |-> 0, correct |-> 0]

\* the words whose stored record differs from the loaded one
Changed ==
    { w \in keys(store.data) \cup keys(loaded) :
        get(store.data, w, NoRecord) # get(loaded, w, NoRecord) }

\* C2: an answer that trims to "q" or "Q" leaves memory as it is, prompts no
\* further word and goes to save; after a wrong first answer and "q" as the
\* second, on a list of two words or more, exactly one stored record differs
\* from the loaded memory, with asked one higher and correct unchanged.
C2_QuitLeavesRecord ==
    /\ [][ (pc = "quiz" /\ exit_path' = "q") =>
             /\ memory' = memory
             /\ out' = out
             /\ cur' = cur
             /\ pc' = "done"
             /\ saves' = saves + 1
             /\ store' = [kind |-> "json", data |-> memory] ]_vars
    /\ [][ exit_path # "q" ]_vars
    /\ [] ( (exit_path = "q" /\ Len(words) >= 2 /\ out = <<"wrong">>) =>
              /\ Cardinality(Changed) = 1
              /\ \A w \in Changed :
                    /\ w = words[1][1]
                    /\ get(store.data, w, NoRecord).asked
                          = get(loaded, w, NoRecord).asked + 1
                    /\ get(store.data, w, NoRecord).correct
                          = get(loaded, w, NoRecord).correct
              /\ loaded = <<>> =>
                    /\ Len(store.data) = 1
                    /\ store.data[1][2].asked = 1
                    /\ store.data[1][2].correct = 0 )

\* from an empty memory: a wrong answer, then "q" at the second of two words
C2_Witness ==
    /\ exit_path = "q"
    /\ Len(words) >= 2
    /\ out = <<"wrong">>
    /\ cur = 2
    /\ loaded = <<>>

ValidRecords(d) ==
    \A n \in 1..Len(d) : 0 <= d[n][2].correct /\ d[n][2].correct <= d[n][2].asked

\* C3: when every loaded record has 0 <= correct <= asked, every record of
\* memory has it in every state; no step lowers the asked count of a word or
\* removes a record.
C3_CountsStayValid ==
    /\ [] (ValidRecords(loaded) => ValidRecords(memory))
    /\ [][ \A w \in keys(memory) :
             /\ has(memory', w)
             /\ get(memory', w, NoRecord).asked >= get(memory, w, NoRecord).asked
             /\ get(memory', w, NoRecord).correct
                   >= get(memory, w, NoRecord).correct ]_vars

\* a session over a loaded record: a right and a wrong answer, both recorded
C3_Witness ==
    /\ pc = "done"
    /\ loaded # <<>>
    /\ Len(out) = 2
    /\ out[1] # out[2]

\* C6: no fault at the file-load boundary ends the run with an uncaught
\* exception.
C6_NoUncaughtLoadFault == ~(pc = "crashed" /\ exit_path = "")

\* C7: after an answered prompt of word w shown with gloss m, the record of
\* w holds meaning = m.
C7_MeaningIsLastSeenGloss ==
    \A n \in 1..Len(out) :
        /\ has(memory, words[n][1])
        /\ meaning_of(get(memory, words[n][1], NoRecord)) = words[n][2]

====
